---- MODULE Spec2Model ----
(***************************************************************************)
(* Language-Practice: the personal dictionary (App.tsx) and the practice   *)
(* session state machine (App.tsx hosting PracticeSession,                 *)
(* VocabularySession and SpeakingSession) as a state machine.              *)
(*                                                                         *)
(* React state is modelled as the committed state: an event handler runs   *)
(* to completion and the component re-renders before the next event is     *)
(* dispatched, so a control is enabled exactly when the committed state    *)
(* renders it enabled.  An asynchronous handler is split at its awaits:    *)
(* the request it sends is kept in `pending` together with the values the  *)
(* handler's closure captured, and a completion action runs the code after *)
(* the await.                                                              *)
(*                                                                         *)
(* The operations of geminiService are operators computed from the API key *)
(* and the backend's response, and localStorage is a variable the          *)
(* dictionary is loaded from and written to.  What the environment fixes   *)
(* for a whole run (the API key of the build, whether the browser records  *)
(* 'audio/webm', whether storage takes writes) is chosen in the initial    *)
(* state of the specification that studies it.                             *)
(***************************************************************************)
EXTENDS Integers, Sequences, FiniteSets, Bags, TLC

\* ------------------------------------------------------------------ bounds

\* Number of distinct target-language words the backend or the user draws from.
NumWords == 2

\* ------------------------------------------------------------ value domains

\* A property that an object does not have reads as `undefined` in JavaScript.
Undefined == "undefined"

\* `null` of a nullable state field.
Null == "null"

Words == {"w" \o ToString(i) : i \in 1..NumWords}

\* English glosses: the same word may arrive with different glosses.
Glosses == {"g1", "g2"}

\* VocabularyItem as handleToggleDictionaryWord reads it: the key field `thai`
\* (undefined when the object passed in carries no such property) and `english`.
VocabularyItem == [thai : Words \cup {Undefined}, english : Glosses]

\* Marker of "no toggle yet" in the history variables.
NoItem == [thai |-> Null, english |-> Null]

\* Topics of TopicSelector (a preset or a typed custom topic).
Topics == {"Food"}

\* PracticeMode, as the mode buttons of TopicSelector select it.
Modes == {"reading", "vocabulary", "speaking"}

\* Paragraphs the backend may return; the empty string is useState('').
Paragraphs == {"p1", "p2"}

\* What the user can have typed: nothing, white space only, an answer.
Inputs == {"", " ", "a"}

\* A trim() that removes nothing.
TrimNothing(s) == s

\* String.prototype.trim() on the inputs above.
Trim(s) == IF s = " " THEN "" ELSE s

\* The meaning of a piece of content (a word, a paragraph) as the backend
\* gives it.
Meaning(content) == "meaning of " \o content

\* Words generatePracticeWord returns within a session: two, so that a next
\* word can repeat the previous one or differ from it.
PracticeWords == {"w1", "w2"}

\* VocabularyPracticeTarget: the target word (field `word`, named `thai` in
\* SpeakingSession) and its meaning.
PracticeTarget == {[word |-> w, english |-> Meaning(w)] : w \in PracticeWords}

\* useState<VocabularyPracticeTarget | null>(null)
NoTarget == [word |-> Null, english |-> Null]

\* Score of a feedback object that carries none.
NoScore == 0 - 1

\* Scores the backend may return for a recorded attempt: the prompt asks for
\* an integer between 0 and 100, the response schema only for a number, so the
\* top of the range and a value beyond it.
Scores == {100, 101}

\* A feedback object of any of the three sessions: the translation feedback
\* of reading mode and the word feedback of vocabulary mode use isCorrect,
\* isHelpReveal and correct (correctTranslation / correctMeaning); the
\* pronunciation feedback of speaking mode uses score.
FeedbackOf(isCorrect, isHelpReveal, correct, score) ==
  [isCorrect |-> isCorrect, isHelpReveal |-> isHelpReveal,
   correct |-> correct, score |-> score]

\* useState<... | null>(null) of the feedback fields.
NoFeedback == FeedbackOf(FALSE, FALSE, Null, NoScore)

\* What checkTranslation and checkWordTranslation may resolve to for the
\* content they were sent: a verdict and the content's meaning.
CheckResults(content) == {FeedbackOf(b, FALSE, Meaning(content), NoScore) : b \in BOOLEAN}

\* What evaluatePronunciation may resolve to.
PronunciationResults == {FeedbackOf(FALSE, FALSE, Null, s) : s \in Scores}

\* mediaRecorderRef.current: no recorder yet, or the last recorder created,
\* with its state and the target word its onstop closure captured.
NoRecorder == [state |-> "none", target |-> Null]

\* Upper bound on the requests and events in flight at one time.
MaxPending == 2

\* Bound on the microphone streams open at the same time.
MaxStreams == 1

VARIABLES
  dictionary,       \* App.dictionary: the ordered list of saved items
  dictBefore,       \* history: dictionary before the most recent toggle
  dictBefore2,      \* history: dictionary before the toggle preceding that one
  lastItem,         \* history: argument of the most recent toggle
  lastItem2,        \* history: argument of the toggle preceding that one
  topic,            \* App.topic
  mode,             \* App.mode
  currentParagraph, \* App.currentParagraph
  feedback,         \* App.feedback
  isLoading,        \* App.isLoading
  error,            \* App.error
  userTranslation,  \* App.userTranslation
  progressCount,    \* App.progressCount
  isAudioLoading,   \* App.isAudioLoading
  currentTarget,    \* VocabularySession / SpeakingSession .currentTarget
  childFeedback,    \* VocabularySession / SpeakingSession .feedback
  isProcessing,     \* VocabularySession / SpeakingSession .isProcessing
  childError,       \* VocabularySession / SpeakingSession .error
  userAnswer,       \* VocabularySession.userAnswer
  isRecording,      \* SpeakingSession.isRecording
  mediaRecorderRef, \* SpeakingSession.mediaRecorderRef.current
  childAudioLoading, \* VocabularySession / SpeakingSession .isAudioLoading
  openStreams,      \* number of microphone streams acquired and not yet released
  pending,          \* bag of the requests and events whose await has not resolved
  lastEvent,        \* history: the handler or completion that ran last
  nextCalls,        \* history: next() calls since the topic was selected
  storage,          \* localStorage: what is kept under 'thaiPracticeDictionary'
  lastStorageOp,    \* history: the last access to localStorage and how it went
  recorderSupported, \* the browser's MediaRecorder records 'audio/webm'
  hasCredential,    \* import.meta.env.VITE_GEMINI_API_KEY is set in the build
  gwCall,           \* the last direct call of a gateway operation, its response
  gwOutcome,        \* what that call threw or returned
  themeCall         \* the topic a control of TopicSelector passed, and the theme sent for it

dictVars == <<dictionary, dictBefore, dictBefore2, lastItem, lastItem2,
              storage, lastStorageOp>>

appVars == <<topic, mode, currentParagraph, feedback, isLoading, error,
             userTranslation, progressCount>>

childVars == <<currentTarget, childFeedback, isProcessing, childError,
               userAnswer, isRecording, mediaRecorderRef>>

audioVars == <<isAudioLoading, childAudioLoading>>

envVars == <<hasCredential, recorderSupported, gwCall, gwOutcome, themeCall>>

vars == <<dictVars, appVars, childVars, audioVars, openStreams, pending, lastEvent,
         nextCalls, envVars>>

\* ------------------------------------------------------------ Dictionary

\* What a handler did besides setting state: whether it requested new
\* content and whether it submitted the user's attempt.
Event(name, fetch, submit) == [name |-> name, fetch |-> fetch, submit |-> submit]

\* prevDictionary.some(word => word.thai === item.thai)
isSaved(prevDictionary, item) ==
  \E i \in 1..Len(prevDictionary) : prevDictionary[i].thai = item.thai

\* prevDictionary.filter(word => word.thai !== item.thai)
FilterOut(prevDictionary, item) ==
  LET keep(word) == word.thai # item.thai
  IN  SelectSeq(prevDictionary, keep)

\* A toggle that compares the whole item instead of its key.
ToggleWholeItem(prevDictionary, item) ==
  IF \E i \in 1..Len(prevDictionary) : prevDictionary[i] = item
  THEN LET keep(word) == word # item IN SelectSeq(prevDictionary, keep)
  ELSE Append(prevDictionary, item)

\* A toggle that puts a new item first instead of last.
TogglePrepend(prevDictionary, item) ==
  IF isSaved(prevDictionary, item)
  THEN FilterOut(prevDictionary, item)
  ELSE <<item>> \o prevDictionary

\* A toggle that removes only the first entry found past the one it matches.
ToggleDropTail(prevDictionary, item) ==
  IF isSaved(prevDictionary, item)
  THEN LET i == CHOOSE j \in 1..Len(prevDictionary) :
                  prevDictionary[j].thai = item.thai
       IN  SubSeq(prevDictionary, 1, i - 1)
  ELSE Append(prevDictionary, item)

\* The state updater of handleToggleDictionaryWord: the new dictionary.
ToggleDictionaryWord(prevDictionary, item) ==
  IF isSaved(prevDictionary, item)
  THEN FilterOut(prevDictionary, item)
  ELSE Append(prevDictionary, item)

\* JSON.stringify of one item: a property whose value is undefined is left out.
SerializeItem(item) ==
  {<<"thai", item.thai>>, <<"english", item.english>>}
    \ {<<"thai", Undefined>>, <<"english", Undefined>>}

\* JSON.stringify(newDictionary): the items in order.
Serialize(list) == [i \in 1..Len(list) |-> SerializeItem(list[i])]

\* A property of a parsed object; a property it lacks reads as undefined.
Property(object, key) ==
  IF \E pair \in object : pair[1] = key
  THEN (CHOOSE pair \in object : pair[1] = key)[2]
  ELSE Undefined

\* JSON.parse(savedDictionary), read as VocabularyItem[].
Parse(items) ==
  [i \in 1..Len(items) |->
     [thai |-> Property(items[i], "thai"), english |-> Property(items[i], "english")]]

\* localStorage.  kind and items: what it holds under the key: nothing
\* (getItem returns null), a text that is not JSON, the JSON text of a list,
\* or nothing that can be reached because access to storage is denied
\* (getItem throws).  writable: setItem stores the value; otherwise it throws
\* (access denied, quota exceeded).
Stored(kind, items, writable) ==
  [kind |-> kind, items |-> items, writable |-> writable]

\* A setItem that keeps the value already stored under the key.
setItemOnce(store, items) ==
  IF store.kind = "json" THEN store ELSE Stored("json", items, TRUE)

\* localStorage.setItem(key, value): the value replaces what was stored.
setItem(store, items) == Stored("json", items, TRUE)

\* The dictionaries a previous run can have left in storage: none or one entry.
StoredLists == {<< >>} \cup {<<item>> : item \in VocabularyItem}

StoredValues ==
  {Stored(k, << >>, w) : k \in {"absent", "corrupt"}, w \in BOOLEAN}
  \cup {Stored("denied", << >>, FALSE)}
  \cup {Stored("json", Serialize(list), w) : list \in StoredLists, w \in BOOLEAN}

\* The mount effect of App: the saved dictionary is read and parsed; when
\* nothing is saved the dictionary stays empty, and when getItem or
\* JSON.parse throws the error is logged and the dictionary stays empty.
LoadDictionary ==
  /\ lastStorageOp = "none"
  /\ IF storage.kind = "json"
     THEN dictionary' = Parse(storage.items) /\ lastStorageOp' = "read"
     ELSE IF storage.kind = "absent"
          THEN UNCHANGED dictionary /\ lastStorageOp' = "read"
          ELSE UNCHANGED dictionary /\ lastStorageOp' = "readFailed"
  /\ lastEvent' = Event("load", FALSE, FALSE)
  /\ UNCHANGED <<dictBefore, dictBefore2, lastItem, lastItem2, storage>>
  /\ UNCHANGED <<envVars, appVars, childVars, audioVars, openStreams, pending, nextCalls>>

\* handleToggleDictionaryWord(item): setDictionary(prev => ...), a functional
\* update, so it always applies to the committed dictionary.  The updater
\* writes the new dictionary to localStorage; when setItem throws (storage
\* full or denied) the error is logged and the new dictionary is kept.
handleToggleDictionaryWord(item) ==
  /\ lastStorageOp # "none"
  /\ dictionary' = ToggleDictionaryWord(dictionary, item)
  /\ IF storage.writable
     THEN /\ storage' = setItem(storage, Serialize(dictionary'))
          /\ lastStorageOp' = "written"
     ELSE /\ UNCHANGED storage
          /\ lastStorageOp' = "writeFailed"
  /\ dictBefore' = dictionary
  /\ dictBefore2' = dictBefore
  /\ lastItem' = item
  /\ lastItem2' = lastItem
  /\ lastEvent' = Event("toggle", FALSE, FALSE)
  /\ UNCHANGED <<envVars, appVars, childVars, audioVars, openStreams, pending, nextCalls>>

\* The star of VocabularyList and the Save buttons of the vocabulary and
\* speaking sessions: the item comes from a backend response.
ToggleFromSession ==
  \E item \in VocabularyItem : handleToggleDictionaryWord(item)

\* The trash button of DictionaryView: the item is an entry of the dictionary.
ToggleFromDictionaryView ==
  \E i \in 1..Len(dictionary) : handleToggleDictionaryWord(dictionary[i])

\* useState<VocabularyItem[]>([]) and the histories.
EmptyDictionary ==
  /\ dictionary = <<>>
  /\ dictBefore = <<>>
  /\ dictBefore2 = <<>>
  /\ lastItem = NoItem
  /\ lastItem2 = NoItem

\* A first run with working storage: nothing is stored, and the mount effect
\* has found nothing.
InitDictionary ==
  /\ EmptyDictionary
  /\ storage = Stored("absent", << >>, TRUE)
  /\ lastStorageOp = "read"

\* Any start: the mount effect has not run yet.
InitStorage ==
  /\ EmptyDictionary
  /\ storage \in StoredValues
  /\ lastStorageOp = "none"

\* ------------------------------------------------------- Session: rendering

\* SESSION_LENGTH of constants.ts: the fixed number of items of a session.
SESSION_LENGTH == 3

\* renderContent: `!topic` renders TopicSelector.
Idle == topic = Null

\* A renderContent that shows SessionComplete one item early.
CompleteEarly == topic # Null /\ progressCount >= SESSION_LENGTH

\* renderContent: `progressCount > SESSION_LENGTH` renders SessionComplete.
Complete == topic # Null /\ progressCount > SESSION_LENGTH

\* A session component that stays on screen whatever the count.
ActiveWithoutLimit == topic # Null

\* renderContent: otherwise the session component of the mode is rendered.
Active == topic # Null /\ progressCount <= SESSION_LENGTH

\* renderContent renders PracticeSession.
ShowsPractice == Active /\ mode = "reading"

\* renderContent renders SpeakingSession.
ShowsSpeaking == Active /\ mode = "speaking"

\* The host renders VocabularySession in vocabulary mode, passing handleNext
\* as onNext, as it does for SpeakingSession.
ShowsVocabulary == Active /\ mode = "vocabulary"

\* PracticeSession: the textarea is `disabled={!!feedback || isLoading}`.
TranslationEditable == ShowsPractice /\ feedback = NoFeedback /\ ~isLoading

\* VocabularySession renders its controls once a target is loaded; the input
\* is `disabled={!!feedback || isProcessing}`.
AnswerEditable ==
  /\ ShowsVocabulary
  /\ currentTarget # NoTarget
  /\ childFeedback = NoFeedback
  /\ ~isProcessing

\* ------------------------------------------------------- Session: requests

\* A request or event whose await has not resolved: the operation, the
\* component that awaits it, whether that component instance is still the
\* session on screen, and the value the closure passed (the previous item of
\* a content fetch, the target of a check or of an evaluation).
Request(op, owner, arg) == [op |-> op, owner |-> owner, live |-> TRUE, arg |-> arg]

\* The operations that fetch the content of a practice item.
ContentFetchOps == {"generateParagraph", "generatePracticeWord"}

\* The operations that submit the user's attempt for checking.
SubmissionOps == {"checkTranslation", "checkWordTranslation", "evaluatePronunciation"}

\* Number of pending requests of the given operations, of any component.
Outstanding(ops) ==
  BagCardinality([r \in {q \in BagToSet(pending) : q.op \in ops} |-> pending[r]])

\* Number of pending requests of the given operations awaited by the session
\* on screen.
OutstandingLive(ops) ==
  BagCardinality([r \in {q \in BagToSet(pending) : q.op \in ops /\ q.live} |-> pending[r]])

\* Number of pending requests of the given operations awaited by the given
\* component (App, or the session component).
OutstandingOf(ops, owner) ==
  BagCardinality([r \in {q \in BagToSet(pending) : q.op \in ops /\ q.owner = owner} |-> pending[r]])

\* There is room for one more request within the bound of the model.
Room == BagCardinality(pending) < MaxPending

\* The bag with a request added.
Sent(bag, r) == bag (+) SetToBag({r})

\* The bag without the requests awaited by the session component: when the
\* component unmounts, the code after their awaits only sets the state of a
\* component that is gone, so they can no longer act.
Unmounted(bag) ==
  [r \in {q \in BagToSet(bag) : q.owner # "Child"} |-> bag[r]]

\* The bag after a reset: the requests App awaits stay in flight (App is
\* never unmounted) but belong to no session on screen any more, and what
\* they were sent for is no longer on screen either.
Stale(bag) ==
  LET old(r) == [r EXCEPT !.live = FALSE, !.arg = Null]
      S == {old(r) : r \in BagToSet(bag)}
      sources(d) == {r \in BagToSet(bag) : old(r) = d}
  IN  [d \in S |-> BagCardinality([r \in sources(d) |-> bag[r]])]

\* ------------------------------------------------------------ Session: App

\* A handleNext that advances by two.
NewProgressCountTwice(count) == count + 2

\* handleNext: `const newProgressCount = progressCount + 1`.
NewProgressCount(count) == count + 1

\* handleNewParagraph up to its await: the flags it sets and the
\* generateParagraph request, which carries the current paragraph as the
\* previous one.
handleNewParagraph ==
  /\ isLoading' = TRUE
  /\ error' = Null
  /\ feedback' = NoFeedback
  /\ userTranslation' = ""
  /\ pending' = Sent(pending, Request("generateParagraph", "App", currentParagraph))

\* The streams left open when the session component unmounts: the cleanup of
\* SpeakingSession's effect stops the tracks of the recorder in
\* mediaRecorderRef if it is recording, and a recorder that was stopped
\* releases its stream in its stop event, which still fires.
StreamsAfterUnmount ==
  openStreams - (IF mediaRecorderRef.state = "recording" THEN 1 ELSE 0)
              - Outstanding({"onstop"})

\* The state of a session component when it is not mounted (its useState
\* initial values), and the effect of its unmounting on the microphone.
ChildUnmounted ==
  /\ currentTarget' = NoTarget
  /\ childFeedback' = NoFeedback
  /\ isProcessing' = FALSE
  /\ childError' = Null
  /\ userAnswer' = ""
  /\ isRecording' = FALSE
  /\ mediaRecorderRef' = NoRecorder
  /\ childAudioLoading' = FALSE
  /\ openStreams' = StreamsAfterUnmount

\* A fetchNewWord that keeps what the user typed.
fetchNewWordKeepingAnswer ==
  /\ isProcessing' = TRUE
  /\ childFeedback' = NoFeedback
  /\ userAnswer' = userAnswer
  /\ childError' = Null

\* fetchNewWord up to its await (VocabularySession and SpeakingSession): the
\* flags it sets; the request carries the current target word as the
\* previous one (`currentTarget?.word`, undefined without a target).
fetchNewWord ==
  /\ isProcessing' = TRUE
  /\ childFeedback' = NoFeedback
  /\ userAnswer' = ""
  /\ childError' = Null

\* The generatePracticeWord request of fetchNewWord.
\* A first word requested by App instead of the session component.
FetchNewWordRequestByApp ==
  Request("generatePracticeWord", "App",
          IF currentTarget = NoTarget THEN Undefined ELSE currentTarget.word)

FetchNewWordRequest ==
  Request("generatePracticeWord", "Child",
          IF currentTarget = NoTarget THEN Undefined ELSE currentTarget.word)

\* handleTopicSelect(selectedTopic, selectedMode), with the mount effect of
\* the session component the next render mounts.
handleTopicSelect(selectedTopic, selectedMode) ==
  /\ Idle
  /\ Room
  /\ topic' = selectedTopic
  /\ mode' = selectedMode
  /\ progressCount' = 1
  /\ IF selectedMode = "reading"
     THEN /\ handleNewParagraph
          /\ UNCHANGED <<currentParagraph, childVars>>
     ELSE /\ fetchNewWord
          /\ pending' = Sent(pending, FetchNewWordRequest)
          /\ UNCHANGED <<currentTarget, isRecording, mediaRecorderRef>>
          /\ UNCHANGED <<currentParagraph, feedback, isLoading, error, userTranslation>>
  /\ lastEvent' = Event("selectTopic", TRUE, FALSE)
  /\ nextCalls' = 0
  /\ UNCHANGED <<envVars, dictVars, audioVars, openStreams>>

\* setUserTranslation(e.target.value) of the textarea.
setUserTranslation(value) ==
  /\ TranslationEditable
  /\ userTranslation' = value
  /\ lastEvent' = Event("type", FALSE, FALSE)
  /\ UNCHANGED <<topic, mode, currentParagraph, feedback, isLoading, error, progressCount>>
  /\ UNCHANGED <<envVars, dictVars, audioVars, openStreams, childVars, pending, nextCalls>>

\* handleSubmitTranslation: the early return and the part up to the await.
handleSubmitTranslation ==
  /\ IF Trim(userTranslation) = "" \/ topic = Null
     THEN /\ UNCHANGED <<isLoading, error, feedback, pending>>
          /\ lastEvent' = Event("submit", FALSE, FALSE)
     ELSE /\ Room
          /\ isLoading' = TRUE
          /\ error' = Null
          /\ feedback' = NoFeedback
          /\ pending' = Sent(pending, Request("checkTranslation", "App", currentParagraph))
          /\ lastEvent' = Event("submit", FALSE, TRUE)
  /\ UNCHANGED <<topic, mode, currentParagraph, userTranslation, progressCount>>
  /\ UNCHANGED <<envVars, dictVars, audioVars, openStreams, childVars, nextCalls>>

\* PracticeSession.handleKeyDown: Enter in the textarea calls onSubmit when
\* no feedback is shown.
SubmitByEnter ==
  /\ TranslationEditable
  /\ handleSubmitTranslation

\* PracticeSession: the Check button, `disabled={isLoading || !userTranslation.trim()}`.
SubmitByButton ==
  /\ ShowsPractice
  /\ feedback = NoFeedback
  /\ ~(isLoading \/ Trim(userTranslation) = "")
  /\ handleSubmitTranslation

\* handleNext as PracticeSession's Next button calls it (rendered with
\* feedback, `disabled={isLoading}`).
handleNext ==
  /\ ShowsPractice
  /\ feedback # NoFeedback
  /\ ~isLoading
  /\ progressCount' = NewProgressCount(progressCount)
  /\ IF progressCount' <= SESSION_LENGTH /\ mode = "reading"
     THEN /\ Room
          /\ handleNewParagraph
          /\ lastEvent' = Event("next", TRUE, FALSE)
     ELSE /\ UNCHANGED <<isLoading, error, feedback, userTranslation, pending>>
          /\ lastEvent' = Event("next", FALSE, FALSE)
  /\ nextCalls' = nextCalls + 1
  /\ UNCHANGED <<topic, mode, currentParagraph>>
  /\ UNCHANGED <<envVars, dictVars, audioVars, openStreams, childVars>>

\* The Skip button of PracticeSession (onSkip, `disabled={isLoading}`):
\* fetches a replacement paragraph.
handleSkipParagraph ==
  /\ ShowsPractice
  /\ feedback = NoFeedback
  /\ ~isLoading
  /\ Room
  /\ handleNewParagraph
  /\ lastEvent' = Event("skip", TRUE, FALSE)
  /\ UNCHANGED <<topic, mode, currentParagraph, progressCount>>
  /\ UNCHANGED <<envVars, dictVars, audioVars, openStreams, childVars, nextCalls>>

\* The Help button of PracticeSession (onHelp, `disabled={isLoading}`): a
\* locally built reveal of the loaded paragraph's meaning.
handleHelpParagraph ==
  /\ ShowsPractice
  /\ feedback = NoFeedback
  /\ ~isLoading
  /\ IF currentParagraph = ""
     THEN UNCHANGED feedback
     ELSE feedback' = FeedbackOf(FALSE, TRUE, Meaning(currentParagraph), NoScore)
  /\ lastEvent' = Event("help", FALSE, FALSE)
  /\ UNCHANGED <<topic, mode, currentParagraph, isLoading, error, userTranslation, progressCount>>
  /\ UNCHANGED <<envVars, dictVars, audioVars, openStreams, childVars, pending, nextCalls>>

\* A handleListen that sends its request without raising isAudioLoading.
handleListenWithoutFlag ==
  /\ ShowsPractice
  /\ ~(isAudioLoading \/ isLoading \/ currentParagraph = "")
  /\ Room
  /\ error' = Null
  /\ pending' = Sent(pending, Request("generateSpeech", "App", currentParagraph))
  /\ lastEvent' = Event("listen", FALSE, FALSE)
  /\ UNCHANGED <<topic, mode, currentParagraph, feedback, isLoading, userTranslation, progressCount>>
  /\ UNCHANGED <<envVars, dictVars, audioVars, openStreams, childVars, nextCalls>>

\* App.handleListen up to its awaits, as the Listen button of PracticeSession
\* calls it (`disabled={isAudioLoading || isLoading || !currentParagraph}`).
\* The request stands for the whole playback pipeline the flag covers:
\* resuming the audio context, generateSpeech and decoding its answer.
handleListen ==
  /\ ShowsPractice
  /\ ~(isAudioLoading \/ isLoading \/ currentParagraph = "")
  /\ IF currentParagraph = "" \/ isAudioLoading
     THEN UNCHANGED <<isAudioLoading, error, pending>>
     ELSE /\ Room
          /\ isAudioLoading' = TRUE
          /\ error' = Null
          /\ pending' = Sent(pending, Request("generateSpeech", "App", currentParagraph))
  /\ lastEvent' = Event("listen", FALSE, FALSE)
  /\ UNCHANGED <<topic, mode, currentParagraph, feedback, isLoading, userTranslation, progressCount>>
  /\ UNCHANGED <<envVars, dictVars, childVars, childAudioLoading, openStreams, nextCalls>>

\* An App.handleListen that lowers the flag at the end of its try block
\* instead of in a finally block: a failure leaves the flag raised.
generateSpeechDoneWithoutFinally ==
  \E r \in BagToSet(pending) :
    /\ r.op = "generateSpeech"
    /\ r.owner = "App"
    /\ pending' = pending (-) SetToBag({r})
    /\ \/ hasCredential /\ UNCHANGED error /\ isAudioLoading' = FALSE
       \/ error' = "Failed to play audio. Please try again." /\ UNCHANGED isAudioLoading
    /\ lastEvent' = Event("completion", FALSE, FALSE)
    /\ UNCHANGED <<topic, mode, currentParagraph, feedback, isLoading, userTranslation, progressCount>>
    /\ UNCHANGED <<envVars, dictVars, childVars, childAudioLoading, openStreams, nextCalls>>

\* App.handleListen after its awaits: the audio plays or the catch block
\* reports the failure; the finally block lowers the flag.
generateSpeechDone ==
  \E r \in BagToSet(pending) :
    /\ r.op = "generateSpeech"
    /\ r.owner = "App"
    /\ pending' = pending (-) SetToBag({r})
    /\ \/ hasCredential /\ UNCHANGED error
       \/ error' = "Failed to play audio. Please try again."
    /\ isAudioLoading' = FALSE
    /\ lastEvent' = Event("completion", FALSE, FALSE)
    /\ UNCHANGED <<topic, mode, currentParagraph, feedback, isLoading, userTranslation, progressCount>>
    /\ UNCHANGED <<envVars, dictVars, childVars, childAudioLoading, openStreams, nextCalls>>

\* resetSession (the Home button, rendered while a topic is set); the next
\* render shows TopicSelector, so the session component unmounts.  The bound
\* of the model keeps room for the request of the next session.
resetSession ==
  /\ topic # Null
  /\ BagCardinality(Stale(Unmounted(pending))) < MaxPending
  /\ topic' = Null
  /\ currentParagraph' = ""
  /\ feedback' = NoFeedback
  /\ isLoading' = FALSE
  /\ error' = Null
  /\ userTranslation' = ""
  /\ progressCount' = 0
  /\ ChildUnmounted
  /\ pending' = Stale(Unmounted(pending))
  /\ lastEvent' = Event("reset", FALSE, FALSE)
  /\ nextCalls' = 0
  /\ UNCHANGED <<mode, envVars, dictVars, isAudioLoading>>

\* handleNewParagraph after its await: App is never unmounted, so the
\* completion runs whatever the session has become.
generateParagraphDone ==
  \E r \in BagToSet(pending) :
    /\ r.op = "generateParagraph"
    /\ pending' = pending (-) SetToBag({r})
    /\ \/ \E paragraph \in Paragraphs :
            /\ hasCredential
            /\ currentParagraph' = paragraph
            /\ UNCHANGED error
       \/ /\ error' = "Failed to generate a new paragraph. Please try again."
          /\ UNCHANGED currentParagraph
    /\ isLoading' = FALSE
    /\ lastEvent' = Event("completion", FALSE, FALSE)
    /\ UNCHANGED <<topic, mode, feedback, userTranslation, progressCount>>
    /\ UNCHANGED <<envVars, dictVars, audioVars, openStreams, childVars, nextCalls>>

\* handleSubmitTranslation after its await.
checkTranslationDone ==
  \E r \in BagToSet(pending) :
    /\ r.op = "checkTranslation"
    /\ pending' = pending (-) SetToBag({r})
    /\ \/ \E result \in CheckResults(r.arg) :
            /\ hasCredential
            /\ feedback' = result
            /\ UNCHANGED error
       \/ /\ error' = "Failed to get feedback. Please try again."
          /\ UNCHANGED feedback
    /\ isLoading' = FALSE
    /\ lastEvent' = Event("completion", FALSE, FALSE)
    /\ UNCHANGED <<topic, mode, currentParagraph, userTranslation, progressCount>>
    /\ UNCHANGED <<envVars, dictVars, audioVars, openStreams, childVars, nextCalls>>

\* ------------------------------------------- Session: VocabularySession

\* setUserAnswer(e.target.value) of the input.
setUserAnswer(value) ==
  /\ AnswerEditable
  /\ userAnswer' = value
  /\ lastEvent' = Event("type", FALSE, FALSE)
  /\ UNCHANGED <<currentTarget, childFeedback, isProcessing, childError, isRecording, mediaRecorderRef>>
  /\ UNCHANGED <<envVars, dictVars, audioVars, openStreams, appVars, pending, nextCalls>>

\* VocabularySession.handleCheck: the early return and the part up to the await.
handleCheck ==
  /\ IF Trim(userAnswer) = "" \/ currentTarget = NoTarget
     THEN /\ UNCHANGED <<isProcessing, pending>>
          /\ lastEvent' = Event("submit", FALSE, FALSE)
     ELSE /\ Room
          /\ isProcessing' = TRUE
          /\ pending' = Sent(pending, Request("checkWordTranslation", "Child", currentTarget.word))
          /\ lastEvent' = Event("submit", FALSE, TRUE)
  /\ UNCHANGED <<currentTarget, childFeedback, childError, userAnswer, isRecording, mediaRecorderRef>>
  /\ UNCHANGED <<envVars, dictVars, audioVars, openStreams, appVars, nextCalls>>

\* VocabularySession: `onKeyDown={(e) => e.key === 'Enter' && handleCheck()}`
\* on the input, which takes keys while it is not disabled.
CheckByEnter ==
  /\ AnswerEditable
  /\ handleCheck

\* VocabularySession: the Check button, rendered without feedback,
\* `disabled={isProcessing || !userAnswer.trim()}`.
CheckByButton ==
  /\ ShowsVocabulary
  /\ currentTarget # NoTarget
  /\ childFeedback = NoFeedback
  /\ ~(isProcessing \/ Trim(userAnswer) = "")
  /\ handleCheck

\* A reveal that marks the answer correct.
HelpRevealCorrect(target) == FeedbackOf(TRUE, TRUE, target.english, NoScore)

\* The feedback object VocabularySession.handleHelp builds from the target.
HelpReveal(target) == FeedbackOf(FALSE, TRUE, target.english, NoScore)

\* VocabularySession.handleHelp (the Help button, rendered without feedback,
\* `disabled={isProcessing}`).
handleHelp ==
  /\ ShowsVocabulary
  /\ currentTarget # NoTarget
  /\ childFeedback = NoFeedback
  /\ ~isProcessing
  /\ IF currentTarget = NoTarget
     THEN UNCHANGED childFeedback
     ELSE childFeedback' = HelpReveal(currentTarget)
  /\ lastEvent' = Event("help", FALSE, FALSE)
  /\ UNCHANGED <<currentTarget, isProcessing, childError, userAnswer, isRecording, mediaRecorderRef>>
  /\ UNCHANGED <<envVars, dictVars, audioVars, openStreams, appVars, pending, nextCalls>>

\* VocabularySession.handleSkip (the Skip button, rendered without feedback,
\* `disabled={isProcessing}`): fetchNewWord().
handleSkip ==
  /\ ShowsVocabulary
  /\ currentTarget # NoTarget
  /\ childFeedback = NoFeedback
  /\ ~isProcessing
  /\ Room
  /\ fetchNewWord
  /\ pending' = Sent(pending, FetchNewWordRequest)
  /\ lastEvent' = Event("skip", TRUE, FALSE)
  /\ UNCHANGED <<currentTarget, isRecording, mediaRecorderRef>>
  /\ UNCHANGED <<envVars, dictVars, audioVars, openStreams, appVars, nextCalls>>

\* `onNext(); fetchNewWord();` of a session component: App.handleNext (which
\* fetches no paragraph outside reading mode), then the component's own
\* fetchNewWord.  When the new count exceeds SESSION_LENGTH the next render
\* shows SessionComplete and the component unmounts with its request in flight.
NextThenFetch ==
  /\ progressCount' = NewProgressCount(progressCount)
  /\ IF progressCount' <= SESSION_LENGTH
     THEN /\ Room
          /\ fetchNewWord
          /\ pending' = Sent(pending, FetchNewWordRequest)
          /\ UNCHANGED <<currentTarget, isRecording, mediaRecorderRef, childAudioLoading, openStreams>>
     ELSE /\ ChildUnmounted
          /\ pending' = Unmounted(Sent(pending, FetchNewWordRequest))
  /\ lastEvent' = Event("next", TRUE, FALSE)
  /\ nextCalls' = nextCalls + 1
  /\ UNCHANGED <<topic, mode, currentParagraph, feedback, isLoading, error, userTranslation>>
  /\ UNCHANGED <<envVars, dictVars, isAudioLoading>>

\* VocabularySession: the Next button, rendered with feedback, never disabled.
VocabularyNext ==
  /\ ShowsVocabulary
  /\ currentTarget # NoTarget
  /\ childFeedback # NoFeedback
  /\ NextThenFetch

\* fetchNewWord after its await.
generatePracticeWordDone ==
  \E r \in BagToSet(pending) :
    /\ r.op = "generatePracticeWord"
    /\ pending' = pending (-) SetToBag({r})
    /\ \/ \E target \in PracticeTarget :
            /\ hasCredential
            /\ currentTarget' = target
            /\ UNCHANGED childError
       \/ /\ childError' = IF mode = "speaking"
                           THEN "Failed to generate a new word."
                           ELSE "Failed to generate content."
          /\ UNCHANGED currentTarget
    /\ isProcessing' = FALSE
    /\ lastEvent' = Event("completion", FALSE, FALSE)
    /\ UNCHANGED <<childFeedback, userAnswer, isRecording, mediaRecorderRef>>
    /\ UNCHANGED <<envVars, dictVars, audioVars, openStreams, appVars, nextCalls>>

\* VocabularySession.handleCheck after its await.
checkWordTranslationDone ==
  \E r \in BagToSet(pending) :
    /\ r.op = "checkWordTranslation"
    /\ pending' = pending (-) SetToBag({r})
    /\ \/ \E result \in CheckResults(r.arg) :
            /\ hasCredential
            /\ childFeedback' = [result EXCEPT !.isHelpReveal = FALSE]
            /\ UNCHANGED childError
       \/ /\ childError' = "Check failed."
          /\ UNCHANGED childFeedback
    /\ isProcessing' = FALSE
    /\ lastEvent' = Event("completion", FALSE, FALSE)
    /\ UNCHANGED <<currentTarget, userAnswer, isRecording, mediaRecorderRef>>
    /\ UNCHANGED <<envVars, dictVars, audioVars, openStreams, appVars, nextCalls>>

\* handleListen of VocabularySession and of SpeakingSession up to its awaits.
sessionListen ==
  /\ IF currentTarget = NoTarget \/ childAudioLoading
     THEN UNCHANGED <<childAudioLoading, pending>>
     ELSE /\ Room
          /\ childAudioLoading' = TRUE
          /\ pending' = Sent(pending, Request("generateSpeech", "Child", currentTarget.word))
  /\ lastEvent' = Event("listen", FALSE, FALSE)
  /\ UNCHANGED <<envVars, dictVars, appVars, childVars, isAudioLoading, openStreams, nextCalls>>

\* VocabularySession: the Listen button, `disabled={isAudioLoading || isProcessing}`.
VocabularyListen ==
  /\ ShowsVocabulary
  /\ currentTarget # NoTarget
  /\ ~(childAudioLoading \/ isProcessing)
  /\ sessionListen

\* SpeakingSession: the Listen button, `disabled={isAudioLoading || isRecording}`.
SpeakingListen ==
  /\ ShowsSpeaking
  /\ currentTarget # NoTarget
  /\ ~(childAudioLoading \/ isRecording)
  /\ sessionListen

\* handleListen of a session component after its awaits: VocabularySession
\* reports a failure, SpeakingSession only logs it; the finally block lowers
\* the flag.
sessionSpeechDone ==
  \E r \in BagToSet(pending) :
    /\ r.op = "generateSpeech"
    /\ r.owner = "Child"
    /\ pending' = pending (-) SetToBag({r})
    /\ \/ hasCredential /\ UNCHANGED childError
       \/ childError' = IF mode = "vocabulary" THEN "Audio failed." ELSE childError
    /\ childAudioLoading' = FALSE
    /\ lastEvent' = Event("completion", FALSE, FALSE)
    /\ UNCHANGED <<currentTarget, childFeedback, isProcessing, userAnswer, isRecording, mediaRecorderRef>>
    /\ UNCHANGED <<envVars, dictVars, appVars, isAudioLoading, openStreams, nextCalls>>

\* --------------------------------------------- Session: SpeakingSession

\* SpeakingSession.handleStartRecording up to `await getUserMedia`: the
\* Record button (`disabled={isProcessing || isAudioLoading}`) while not
\* recording.  Nothing is set before the await.
handleStartRecording ==
  /\ ShowsSpeaking
  /\ currentTarget # NoTarget
  /\ ~isRecording
  /\ ~(isProcessing \/ childAudioLoading)
  /\ Room
  /\ pending' = Sent(pending, Request("getUserMedia", "Child", currentTarget.word))
  /\ lastEvent' = Event("record", FALSE, FALSE)
  /\ UNCHANGED <<envVars, dictVars, audioVars, openStreams, appVars, childVars, nextCalls>>

\* SpeakingSession.handleStartRecording after the await.  getUserMedia
\* rejects, and the catch block reports it; or it resolves with a stream and
\* the recorder is created and started; or, in a browser that does not
\* record that type, it resolves with a stream and
\* `new MediaRecorder(stream, { mimeType: 'audio/webm' })` throws, and the
\* same catch block reports it.
getUserMediaDone ==
  \E r \in BagToSet(pending) :
    /\ r.op = "getUserMedia"
    /\ pending' = pending (-) SetToBag({r})
    /\ \/ /\ childError' = "Could not access microphone. Please allow permissions."
          /\ UNCHANGED <<mediaRecorderRef, isRecording, openStreams>>
       \/ /\ recorderSupported
          /\ openStreams < MaxStreams
          /\ openStreams' = openStreams + 1
          /\ mediaRecorderRef' = [state |-> "recording", target |-> r.arg]
          /\ isRecording' = TRUE
          /\ childError' = Null
       \/ /\ ~recorderSupported
          /\ openStreams < MaxStreams
          /\ openStreams' = openStreams + 1
          /\ childError' = "Could not access microphone. Please allow permissions."
          /\ UNCHANGED <<mediaRecorderRef, isRecording>>
    /\ lastEvent' = Event("completion", FALSE, FALSE)
    /\ UNCHANGED <<currentTarget, childFeedback, isProcessing, userAnswer>>
    /\ UNCHANGED <<envVars, dictVars, audioVars, appVars, nextCalls>>

\* SpeakingSession.handleStopRecording: the Stop button (the same button,
\* while recording).  recorder.stop() queues the recorder's stop event.
handleStopRecording ==
  /\ ShowsSpeaking
  /\ currentTarget # NoTarget
  /\ isRecording
  /\ ~(isProcessing \/ childAudioLoading)
  /\ IF mediaRecorderRef.state # "none" /\ isRecording
     THEN /\ Room
          /\ mediaRecorderRef' = [mediaRecorderRef EXCEPT !.state = "inactive"]
          /\ pending' = Sent(pending, Request("onstop", "Child", mediaRecorderRef.target))
          /\ isRecording' = FALSE
     ELSE UNCHANGED <<mediaRecorderRef, pending, isRecording>>
  /\ lastEvent' = Event("stop", FALSE, FALSE)
  /\ UNCHANGED <<currentTarget, childFeedback, isProcessing, childError, userAnswer>>
  /\ UNCHANGED <<envVars, dictVars, audioVars, openStreams, appVars, nextCalls>>

\* mediaRecorder.onstop: the tracks of the recorder's stream are stopped;
\* then processAudio up to its await: the closure's target is never null,
\* isProcessing is set and the evaluation is requested.
processAudio ==
  \E r \in BagToSet(pending) :
    /\ r.op = "onstop"
    /\ openStreams' = openStreams - 1
    /\ pending' = Sent(pending (-) SetToBag({r}),
                       [r EXCEPT !.op = "evaluatePronunciation"])
    /\ isProcessing' = TRUE
    /\ lastEvent' = Event("completion", FALSE, TRUE)
    /\ UNCHANGED <<currentTarget, childFeedback, childError, userAnswer, isRecording, mediaRecorderRef>>
    /\ UNCHANGED <<envVars, dictVars, audioVars, appVars, nextCalls>>

\* processAudio after its await.
evaluatePronunciationDone ==
  \E r \in BagToSet(pending) :
    /\ r.op = "evaluatePronunciation"
    /\ pending' = pending (-) SetToBag({r})
    /\ \/ \E result \in PronunciationResults :
            /\ hasCredential
            /\ childFeedback' = result
            /\ UNCHANGED childError
       \/ /\ childError' = "Failed to evaluate pronunciation. Try again."
          /\ UNCHANGED childFeedback
    /\ isProcessing' = FALSE
    /\ lastEvent' = Event("completion", FALSE, FALSE)
    /\ UNCHANGED <<currentTarget, userAnswer, isRecording, mediaRecorderRef>>
    /\ UNCHANGED <<envVars, dictVars, audioVars, openStreams, appVars, nextCalls>>

\* SpeakingSession.handleNext: the Next Word button, rendered with feedback,
\* never disabled: `onNext(); fetchNewWord();`.
SpeakingNext ==
  /\ ShowsSpeaking
  /\ currentTarget # NoTarget
  /\ childFeedback # NoFeedback
  /\ NextThenFetch

\* ------------------------------------------------------------- AI gateway

\* Bound on the parts of a speech candidate's content.
MaxParts == 2

\* The operations of geminiService that return parsed JSON.
JsonOps == {"generateParagraph", "checkTranslation", "checkWordTranslation",
            "generatePracticeWord", "evaluatePronunciation"}

\* The `required` list of each operation's responseSchema.
RequiredFields(op) ==
  CASE op = "generateParagraph" -> {"paragraph"}
    [] op = "checkTranslation" -> {"isCorrect", "feedback", "correctTranslation", "vocabulary"}
    [] op = "checkWordTranslation" -> {"isCorrect", "feedback", "correctMeaning"}
    [] op = "generatePracticeWord" -> {"word", "phonetic", "english"}
    [] op = "evaluatePronunciation" -> {"score", "feedback", "tips"}

\* A part of a candidate's content: its inlineData.data (a non-empty base64
\* string), the empty string, or `undefined` when the part has no inlineData.
PartData == {Undefined, "", "a1", "a2"}

PartLists == UNION {[1..n -> PartData] : n \in 0..MaxParts}

\* What ai.models.generateContent settles to.  kind: the promise rejects
\* (with an error whose message may be empty), or resolves with a response
\* whose text is not JSON, is the JSON `null`, or is a JSON object having the
\* properties in `fields`; for generateSpeech the response has `candidates`
\* undefined, empty, or starting with a candidate whose `content` is
\* undefined, has no parts, or has the parts `parts`.
Response(kind, message, fields, candidates, content, finishReason, parts) ==
  [kind |-> kind, message |-> message, fields |-> fields,
   candidates |-> candidates, content |-> content,
   finishReason |-> finishReason, parts |-> parts]

Rejections ==
  {Response("rejected", m, {}, Undefined, Undefined, Undefined, << >>) :
     m \in {"", "fetch failed"}}

JsonResponses(op) ==
  Rejections
  \cup {Response(k, "", {}, Undefined, Undefined, Undefined, << >>) :
          k \in {"notJSON", "jsonNull"}}
  \cup {Response("object", "", F, Undefined, Undefined, Undefined, << >>) :
          F \in SUBSET RequiredFields(op)}

SpeechResponses ==
  Rejections
  \cup {Response("resolved", "", {}, c, Undefined, Undefined, << >>) :
          c \in {Undefined, "empty"}}
  \cup {Response("resolved", "", {}, "some", c, f, << >>) :
          c \in {Undefined, "noParts"}, f \in {Undefined, "SAFETY"}}
  \cup {Response("resolved", "", {}, "some", "parts", Undefined, p) :
          p \in PartLists}

\* What a call settles to: it throws an Error with `message`, or it returns
\* a value: the properties of the returned object (for generateParagraph the
\* returned string counts as the property `paragraph`, `undefined` as none)
\* and, for generateSpeech, the returned audio data.
Threw(message) == [threw |-> TRUE, message |-> message, fields |-> {}, data |-> Null]
Returned(fields, data) == [threw |-> FALSE, message |-> Null, fields |-> fields, data |-> data]

\* getAI: the message of the Error it throws, or Null when it returns a client.
getAI(apiKey) == IF apiKey THEN Null ELSE "VITE_GEMINI_API_KEY is not set"

\* JSON.parse(response.text) throws unless the text is JSON.
JsonParseThrows(response) == response.kind \notin {"jsonNull", "object"}

generateParagraph(apiKey, response) ==
  IF \/ getAI(apiKey) # Null
     \/ response.kind = "rejected"
     \/ JsonParseThrows(response)
     \/ response.kind = "jsonNull"    \* result.paragraph of null: TypeError
  THEN Threw("Could not generate a paragraph.")
  ELSE Returned(response.fields \cap {"paragraph"}, Null)

\* try { getAI(); await generateContent(); return JSON.parse(response.text) }
\* catch { throw new Error(message) }
ParsedOrMessage(apiKey, response, message) ==
  IF \/ getAI(apiKey) # Null
     \/ response.kind = "rejected"
     \/ JsonParseThrows(response)
  THEN Threw(message)
  ELSE Returned(response.fields, Null)

checkTranslation(apiKey, response) ==
  ParsedOrMessage(apiKey, response, "Could not get feedback.")

checkWordTranslation(apiKey, response) ==
  ParsedOrMessage(apiKey, response, "Could not check word translation.")

generatePracticeWord(apiKey, response) ==
  ParsedOrMessage(apiKey, response, "Could not generate a word.")

evaluatePronunciation(apiKey, response) ==
  ParsedOrMessage(apiKey, response, "Evaluation failed.")

\* The catch block of generateSpeech: error.message || "Speech generation failed."
SpeechError(message) ==
  Threw(IF message = "" THEN "Speech generation failed." ELSE message)

\* The loop of generateSpeech over the parts, from index i on.
RECURSIVE FirstInlineData(_, _)
FirstInlineData(parts, i) ==
  IF i > Len(parts)
  THEN SpeechError("The API response did not contain any audio data.")
  ELSE IF parts[i] # Undefined /\ parts[i] # ""
       THEN Returned({}, parts[i])
       ELSE FirstInlineData(parts, i + 1)

\* A loop that keeps the data of the last part that has some.
RECURSIVE LastInlineData(_, _)
LastInlineData(parts, i) ==
  IF i = 0
  THEN SpeechError("The API response did not contain any audio data.")
  ELSE IF parts[i] # Undefined /\ parts[i] # ""
       THEN Returned({}, parts[i])
       ELSE LastInlineData(parts, i - 1)

generateSpeechLastPart(apiKey, response) ==
  IF getAI(apiKey) # Null THEN SpeechError(getAI(apiKey))
  ELSE IF response.kind = "rejected" THEN SpeechError(response.message)
  ELSE IF response.candidates \in {Undefined, "empty"}
       THEN SpeechError("The AI model returned no results.")
  ELSE IF response.content \in {Undefined, "noParts"}
       THEN SpeechError("The model failed to generate speech content. Reason: "
                        \o (IF response.finishReason = Undefined
                            THEN "UNKNOWN" ELSE response.finishReason))
  ELSE LastInlineData(response.parts, Len(response.parts))

generateSpeech(apiKey, response) ==
  IF getAI(apiKey) # Null THEN SpeechError(getAI(apiKey))
  ELSE IF response.kind = "rejected" THEN SpeechError(response.message)
  ELSE IF response.candidates \in {Undefined, "empty"}
       THEN SpeechError("The AI model returned no results.")
  ELSE IF response.content \in {Undefined, "noParts"}
       THEN SpeechError("The model failed to generate speech content. Reason: "
                        \o (IF response.finishReason = Undefined
                            THEN "UNKNOWN" ELSE response.finishReason))
  ELSE FirstInlineData(response.parts, 1)

\* No call made yet.
NoCall == [op |-> Null, response |-> Response(Null, "", {}, Undefined, Undefined, Undefined, << >>)]

\* One call of a gateway operation with the key of the build and a response
\* of the backend; gwCall and gwOutcome record the call and what it settled to.
Called(op, response, outcome) ==
  /\ gwCall' = [op |-> op, response |-> response]
  /\ gwOutcome' = outcome
  /\ UNCHANGED <<hasCredential, recorderSupported, themeCall, dictVars, appVars, childVars,
                 audioVars, openStreams, pending, lastEvent, nextCalls>>

CallGenerateParagraph ==
  \E response \in JsonResponses("generateParagraph") :
    Called("generateParagraph", response, generateParagraph(hasCredential, response))

CallCheckTranslation ==
  \E response \in JsonResponses("checkTranslation") :
    Called("checkTranslation", response, checkTranslation(hasCredential, response))

CallCheckWordTranslation ==
  \E response \in JsonResponses("checkWordTranslation") :
    Called("checkWordTranslation", response, checkWordTranslation(hasCredential, response))

CallGeneratePracticeWord ==
  \E response \in JsonResponses("generatePracticeWord") :
    Called("generatePracticeWord", response, generatePracticeWord(hasCredential, response))

CallEvaluatePronunciation ==
  \E response \in JsonResponses("evaluatePronunciation") :
    Called("evaluatePronunciation", response, evaluatePronunciation(hasCredential, response))

CallGenerateSpeech ==
  \E response \in SpeechResponses :
    Called("generateSpeech", response, generateSpeech(hasCredential, response))

\* ------------------------------------------------------ Theme of a request

\* RANDOM_THEMES of geminiService.
RANDOM_THEMES ==
  << "Daily routine and morning habits",
     "At the supermarket buying groceries",
     "Ordering food and drinks at a local restaurant",
     "Talking about family members and home life",
     "Common hobbies like reading, sports, or music",
     "Weather, seasons, and what to wear",
     "Simple directions and getting around the city",
     "Describing your house and furniture",
     "Talking about school, work, or daily tasks",
     "Plans for the weekend and free time",
     "Basic health, feeling well, and visiting a pharmacy",
     "Expressing simple emotions and feelings",
     "Colors, numbers, and telling the time",
     "Common animals and household pets",
     "Traveling by bus, train, or taxi",
     "Buying clothes and shopping for essentials",
     "Meeting new people and basic introductions",
     "A walk in the park or nature",
     "Daily objects found in a kitchen or bedroom",
     "Simple polite phrases and social interactions" >>

\* `Math.floor(Math.random() * RANDOM_THEMES.length)`, as a 1-based index.
Draws == 1..Len(RANDOM_THEMES)

\* String.prototype.includes.
includes(string, searchString) ==
  \E i \in 1..(Len(string) - Len(searchString) + 1) :
    SubSeq(string, i, i + Len(searchString) - 1) = searchString

\* `chosenTheme` of generateParagraph and of generatePracticeWord.
chosenTheme(sessionTopic, draw) ==
  IF includes(sessionTopic, "Random") \/ sessionTopic = "Surprise Me"
  THEN RANDOM_THEMES[draw]
  ELSE sessionTopic

\* What the user may type into the custom topic input.
CustomTopics ==
  {"", " ", "Food", "random", "Random walks", "My Random day", "Surprise Me"}

\* The topic the Surprise Me button passes.
SurpriseTopic(selectedMode) ==
  IF selectedMode = "reading" THEN "Random Paragraphs" ELSE "Random Words"

\* The content operation a session of the mode calls with the session topic.
ContentOperation(selectedMode) ==
  IF selectedMode = "reading" THEN "generateParagraph" ELSE "generatePracticeWord"

ThemeCall(origin, sessionTopic, selectedMode, theme) ==
  [origin |-> origin, topic |-> sessionTopic, op |-> ContentOperation(selectedMode),
   theme |-> theme]

\* No topic has been passed to onTopicSelect.
NoThemeCall == [origin |-> Null, topic |-> Null, op |-> Null, theme |-> Null]

TopicPassed(origin, sessionTopic, selectedMode) ==
  /\ themeCall' = ThemeCall(origin, sessionTopic, selectedMode, Null)
  /\ UNCHANGED <<hasCredential, recorderSupported, gwCall, gwOutcome, dictVars, appVars,
                 childVars, audioVars, openStreams, pending, lastEvent, nextCalls>>

\* TopicSelector.handleSubmit: the Start Session form with the typed topic.
handleSubmit ==
  \E customTopic \in CustomTopics, selectedMode \in Modes :
    /\ Trim(customTopic) # ""
    /\ TopicPassed("custom", Trim(customTopic), selectedMode)

\* TopicSelector: the Surprise Me button.
SurpriseMe ==
  \E selectedMode \in Modes :
    TopicPassed("surprise", SurpriseTopic(selectedMode), selectedMode)

\* TopicSelector: a button of the TOPICS list.
QuickSelect ==
  \E listed \in Topics, selectedMode \in Modes :
    TopicPassed("listed", listed, selectedMode)

\* generateParagraph or generatePracticeWord, called with the session topic,
\* up to the request: the theme it puts into the prompt.
ThemeSent ==
  /\ themeCall.topic # Null
  /\ \E draw \in Draws :
       themeCall' = [themeCall EXCEPT !.theme = chosenTheme(themeCall.topic, draw)]
  /\ UNCHANGED <<hasCredential, recorderSupported, gwCall, gwOutcome, dictVars, appVars,
                 childVars, audioVars, openStreams, pending, lastEvent, nextCalls>>

\* ------------------------------------------------------------------- Spec

InitSession ==
  /\ topic = Null
  /\ mode = "reading"
  /\ currentParagraph = ""
  /\ feedback = NoFeedback
  /\ isLoading = FALSE
  /\ error = Null
  /\ userTranslation = ""
  /\ progressCount = 0
  /\ currentTarget = NoTarget
  /\ childFeedback = NoFeedback
  /\ isProcessing = FALSE
  /\ childError = Null
  /\ userAnswer = ""
  /\ isRecording = FALSE
  /\ mediaRecorderRef = NoRecorder
  /\ isAudioLoading = FALSE
  /\ childAudioLoading = FALSE
  /\ openStreams = 0
  /\ pending = EmptyBag
  /\ lastEvent = Event("init", FALSE, FALSE)
  /\ nextCalls = 0

\* No gateway operation has been called directly.
InitGateway ==
  /\ gwCall = NoCall
  /\ gwOutcome = Returned({}, Null)
  /\ themeCall = NoThemeCall

\* The specifications of the session run in a build that has the API key
\* set and in a browser that records 'audio/webm'.
Init ==
  /\ InitDictionary /\ InitSession /\ InitGateway
  /\ hasCredential = TRUE
  /\ recorderSupported = TRUE

NextDictionary ==
  \/ ToggleFromSession
  \/ ToggleFromDictionaryView

\* The dictionary on its own: every sequence of toggles from the empty dictionary.
SpecDictionary == Init /\ [][NextDictionary]_vars

Next ==
  \/ \E selectedTopic \in Topics, selectedMode \in Modes :
       handleTopicSelect(selectedTopic, selectedMode)
  \/ \E value \in Inputs : setUserTranslation(value)
  \/ SubmitByEnter
  \/ SubmitByButton
  \/ handleNext
  \/ handleSkipParagraph
  \/ handleHelpParagraph
  \/ handleListen
  \/ generateSpeechDone
  \/ resetSession
  \/ generateParagraphDone
  \/ checkTranslationDone
  \/ \E value \in Inputs : setUserAnswer(value)
  \/ CheckByEnter
  \/ CheckByButton
  \/ handleHelp
  \/ handleSkip
  \/ VocabularyNext
  \/ VocabularyListen
  \/ SpeakingListen
  \/ sessionSpeechDone
  \/ generatePracticeWordDone
  \/ checkWordTranslationDone
  \/ handleStartRecording
  \/ getUserMediaDone
  \/ handleStopRecording
  \/ processAudio
  \/ evaluatePronunciationDone
  \/ SpeakingNext

\* The practice session: every sequence of user events and completions.
Spec == Init /\ [][Next]_vars

\* Every request is eventually answered: a promise a handler awaits is
\* settled, with a result or with a failure, and the rest of the handler then
\* runs.  Nothing obliges the user to act.
Answered ==
  /\ WF_vars(generateParagraphDone)
  /\ WF_vars(checkTranslationDone)
  /\ WF_vars(generateSpeechDone)
  /\ WF_vars(generatePracticeWordDone)
  /\ WF_vars(checkWordTranslationDone)
  /\ WF_vars(sessionSpeechDone)
  /\ WF_vars(evaluatePronunciationDone)

\* The practice session with a backend that answers every request.
SpecAnswered == Init /\ [][Next]_vars /\ Answered

\* The application before its mount effect, with any storage.
InitAnyStorage ==
  /\ InitStorage /\ InitSession /\ InitGateway
  /\ hasCredential = TRUE
  /\ recorderSupported = TRUE

NextStorage ==
  \/ LoadDictionary
  \/ ToggleFromSession
  \/ ToggleFromDictionaryView

\* The dictionary and its storage: the load at start, then every sequence of
\* toggles, with storage that takes the writes or refuses them.
SpecStorage == InitAnyStorage /\ [][NextStorage]_vars

\* A build with or without the API key.
InitAnyBuild ==
  /\ InitDictionary /\ InitSession /\ InitGateway
  /\ hasCredential \in BOOLEAN
  /\ recorderSupported = TRUE

\* A browser that records 'audio/webm' or one that does not.
InitAnyBrowser ==
  /\ InitDictionary /\ InitSession /\ InitGateway
  /\ hasCredential = TRUE
  /\ recorderSupported \in BOOLEAN

\* The practice session in any browser.
SpecBrowser == InitAnyBrowser /\ [][Next]_vars

NextGateway ==
  \/ CallGenerateParagraph
  \/ CallCheckTranslation
  \/ CallCheckWordTranslation
  \/ CallGeneratePracticeWord
  \/ CallEvaluatePronunciation
  \/ CallGenerateSpeech

\* The practice session in a build with or without the API key: without it
\* getAI throws inside every operation's try block, so every request fails.
SpecStartup == InitAnyBuild /\ [][Next]_vars

\* The gateway operations on their own: every call with every response.
SpecGateway == InitAnyBuild /\ [][NextGateway]_vars

NextTheme ==
  \/ handleSubmit
  \/ SurpriseMe
  \/ QuickSelect
  \/ ThemeSent

\* The choice of a topic and of the theme sent for it: every control of
\* TopicSelector, every typed topic and every draw.
SpecTheme == Init /\ [][NextTheme]_vars

\* ---------------------------------------------------------------- claims

\* Position of the entries of a dictionary that carry a given key.
KeyPositions(dict, key) == {i \in 1..Len(dict) : dict[i].thai = key}

\* C1: after any sequence of toggles from the empty dictionary no two entries
\* of the dictionary have the same word key.
C1_UniqueKeys ==
  \A i, j \in 1..Len(dictionary) :
    dictionary[i].thai = dictionary[j].thai => i = j

\* C1 witness: toggles have left two entries in the dictionary after a toggle
\* of a key that was already saved (with another gloss) removed that key.
C1_Witness ==
  /\ Len(dictionary) >= 2
  /\ lastItem # NoItem
  /\ lastItem2 # NoItem
  /\ lastItem2.thai = lastItem.thai
  /\ lastItem2.english # lastItem.english

\* Two toggles of the same item have just been made, one right after the other.
ToggledTwice == lastItem # NoItem /\ lastItem2 = lastItem

\* C2 (as stated): toggle(x) followed immediately by toggle(x) yields the
\* dictionary the first toggle started from, in contents and in order.
C2_DoubleToggleRestores ==
  ToggledTwice => dictionary = dictBefore2

\* C2 (amended): toggle(x) twice restores the dictionary when x's key was
\* absent from it; when the key was present, the result is the dictionary
\* without that key's entry and with x appended as the last entry.
C2_DoubleToggleAmended ==
  ToggledTwice =>
    IF KeyPositions(dictBefore2, lastItem.thai) = {}
    THEN dictionary = dictBefore2
    ELSE /\ Len(dictionary) = Len(dictBefore2)
         /\ dictionary[Len(dictionary)] = lastItem
         /\ \A k \in 1..Len(dictBefore2) :
              LET before == Cardinality({j \in 1..k : dictBefore2[j].thai = lastItem.thai})
              IN  dictBefore2[k].thai # lastItem.thai =>
                    dictionary[k - before] = dictBefore2[k]

\* C2 witness: the item toggled twice was an entry in the middle of the
\* dictionary, stored with a different gloss.
C2_Witness ==
  /\ ToggledTwice
  /\ \E k \in 1..(Len(dictBefore2) - 1) :
       /\ dictBefore2[k].thai = lastItem.thai
       /\ dictBefore2[k].english # lastItem.english

\* The reference toggle: written by recursion over the list, independently of
\* the filter of the code.
RECURSIVE RemoveKey(_, _)
RemoveKey(dict, key) ==
  IF dict = <<>> THEN <<>>
  ELSE IF Head(dict).thai = key THEN RemoveKey(Tail(dict), key)
  ELSE <<Head(dict)>> \o RemoveKey(Tail(dict), key)

ReferenceToggle(dict, item) ==
  IF KeyPositions(dict, item.thai) # {}
  THEN RemoveKey(dict, item.thai)
  ELSE dict \o <<item>>

\* C3: a toggle equals the reference operation (remove every entry of the key,
\* keeping the order of the rest, or append the item last), and changes the
\* length of the dictionary by exactly one.
C3_ToggleIsReference ==
  lastItem # NoItem =>
    /\ dictionary = ReferenceToggle(dictBefore, lastItem)
    /\ Len(dictionary) - Len(dictBefore) \in {1, -1}

\* C3 witness: a toggle removed an entry that had entries before and after it.
C3_Witness ==
  /\ lastItem # NoItem
  /\ \E k \in 2..(Len(dictBefore) - 1) : dictBefore[k].thai = lastItem.thai
  /\ Len(dictionary) = Len(dictBefore) - 1

\* The user operations of a session other than reset.
SessionOperation ==
  \/ \E selectedTopic \in Topics, selectedMode \in Modes :
       handleTopicSelect(selectedTopic, selectedMode)
  \/ \E value \in Inputs : setUserTranslation(value)
  \/ SubmitByEnter
  \/ SubmitByButton
  \/ handleNext
  \/ handleSkipParagraph
  \/ handleHelpParagraph
  \/ \E value \in Inputs : setUserAnswer(value)
  \/ CheckByEnter
  \/ CheckByButton
  \/ handleHelp
  \/ handleSkip
  \/ VocabularyNext
  \/ handleStartRecording
  \/ handleStopRecording
  \/ SpeakingNext
  \/ handleListen
  \/ VocabularyListen
  \/ SpeakingListen

C5_CompleteAfterLength ==
  topic # Null =>
    /\ Active <=> nextCalls < SESSION_LENGTH
    /\ Complete <=> nextCalls >= SESSION_LENGTH
    /\ Complete <=> progressCount > SESSION_LENGTH
    /\ Complete => ~ENABLED SessionOperation

\* C5 witness: the SESSION_LENGTH-th next() has completed a reading session.
C5_Witness ==
  /\ Complete
  /\ mode = "reading"
  /\ lastEvent.name = "next"
  /\ nextCalls = SESSION_LENGTH

\* C6 (as stated): a next() that requests new content leaves progressCount
\* at most SESSION_LENGTH; the next() that completes the session requests none.
C6_NextFetchesWithinSession ==
  (lastEvent.name = "next" /\ lastEvent.fetch) => progressCount <= SESSION_LENGTH

\* C7: help() sends no request and, with an item loaded, sets the feedback to
\* an object with isCorrect = false whose correct meaning is the meaning of
\* the loaded item; with no item loaded it changes nothing.
C7_HelpRevealsLocally ==
  [][lastEvent'.name = "help" =>
       /\ pending' = pending
       /\ mode = "vocabulary" =>
            IF currentTarget = NoTarget
            THEN UNCHANGED <<appVars, childVars>>
            ELSE /\ childFeedback'.isCorrect = FALSE
                 /\ childFeedback'.correct = currentTarget.english
                 /\ currentTarget' = currentTarget
       /\ mode = "reading" =>
            IF currentParagraph = ""
            THEN UNCHANGED <<appVars, childVars>>
            ELSE /\ feedback'.isCorrect = FALSE
                 /\ feedback'.correct = Meaning(currentParagraph)
                 /\ currentParagraph' = currentParagraph]_vars

\* C7 witness: help() has revealed the meaning of the loaded word of a
\* vocabulary session.
C7_Witness ==
  /\ lastEvent.name = "help"
  /\ mode = "vocabulary"
  /\ currentTarget # NoTarget
  /\ childFeedback = FeedbackOf(FALSE, TRUE, currentTarget.english, NoScore)

\* The inputs that are empty or white space only.
BlankInputs == {"", " "}

\* C8: submit() with empty or white-space-only input sends no request and
\* leaves every session field unchanged, in reading and in vocabulary mode.
C8_BlankSubmitDoesNothing ==
  [][(/\ lastEvent'.name = "submit"
      /\ \/ mode = "reading" /\ userTranslation \in BlankInputs
         \/ mode = "vocabulary" /\ userAnswer \in BlankInputs)
       => UNCHANGED <<appVars, childVars, pending>>]_vars

\* C8 witness: Enter was pressed on white space only in a reading session and
\* nothing was sent.
C8_Witness ==
  /\ lastEvent.name = "submit"
  /\ ~lastEvent.submit
  /\ mode = "reading"
  /\ userTranslation = " "
  /\ Outstanding(SubmissionOps) = 0

\* C9: skip() issues exactly one content fetch, sends no submission, clears
\* the user's input and the feedback, and leaves progressCount unchanged.
C9_SkipFetchesOnce ==
  [][lastEvent'.name = "skip" =>
       /\ Outstanding(ContentFetchOps)' = Outstanding(ContentFetchOps) + 1
       /\ Outstanding(SubmissionOps)' = Outstanding(SubmissionOps)
       /\ progressCount' = progressCount
       /\ mode = "vocabulary" => userAnswer' = "" /\ childFeedback' = NoFeedback
       /\ mode = "reading" => userTranslation' = "" /\ feedback' = NoFeedback]_vars

\* C9 witness: skip() has just run in a vocabulary session and its fetch is
\* in flight.
C9_Witness ==
  /\ lastEvent.name = "skip"
  /\ mode = "vocabulary"
  /\ OutstandingLive(ContentFetchOps) = 1
  /\ userAnswer = ""

\* C10 (as stated): a step that issues a content fetch is taken only when
\* the session on screen has no content fetch and no submission outstanding.
C10_NoFetchWhileOutstanding ==
  [][Outstanding(ContentFetchOps)' > Outstanding(ContentFetchOps) =>
       OutstandingLive(ContentFetchOps \cup SubmissionOps) = 0]_vars

\* C11 (as stated): reset() yields Idle with topic null, content empty,
\* feedback null, error null, user input empty, progressCount at its initial
\* value and every loading flag, the audio loading flag included, false.
C11_ResetClearsEverything ==
  lastEvent.name = "reset" =>
    /\ Idle
    /\ currentParagraph = ""
    /\ currentTarget = NoTarget
    /\ feedback = NoFeedback /\ childFeedback = NoFeedback
    /\ error = Null /\ childError = Null
    /\ userTranslation = "" /\ userAnswer = ""
    /\ progressCount = 0
    /\ ~isLoading /\ ~isProcessing
    /\ ~isAudioLoading /\ ~childAudioLoading

\* C12: at most one generateSpeech request is outstanding per component, and
\* the component's audio loading flag is true exactly while one is.
C12_OneSpeechRequest ==
  /\ OutstandingOf({"generateSpeech"}, "App") = IF isAudioLoading THEN 1 ELSE 0
  /\ OutstandingOf({"generateSpeech"}, "Child") = IF childAudioLoading THEN 1 ELSE 0

\* C12 witness: a paragraph is on screen and nothing is loading but the
\* audio, whose request is in flight, so a listen would start were it not
\* for the flag.
C12_Witness ==
  /\ ShowsPractice /\ currentParagraph # "" /\ ~isLoading
  /\ isAudioLoading
  /\ OutstandingOf({"generateSpeech"}, "App") = 1
  /\ ~ENABLED handleListen

\* C13: every microphone stream that was acquired is eventually released.
\* A stream is released by the stop event of its recorder or by the unmount
\* cleanup, which reaches only the recorder in mediaRecorderRef while it is
\* recording.  An open stream that neither of them will reach stays open for
\* good, so the claim requires every open stream to be the stream of the
\* recording recorder in mediaRecorderRef or of a recorder whose stop event
\* is queued.
StreamsToBeReleased ==
  (IF mediaRecorderRef.state = "recording" THEN 1 ELSE 0) + Outstanding({"onstop"})

C13_EveryStreamReleased == openStreams = StreamsToBeReleased

\* C14: the evaluatePronunciation request of a record cycle carries the target
\* word that is displayed when the request is sent.
EvaluationsSent ==
  {r \in BagToSet(pending') :
     /\ r.op = "evaluatePronunciation"
     /\ CopiesIn(r, pending') > CopiesIn(r, pending)}

C14_EvaluatesDisplayedWord ==
  [][\A r \in EvaluationsSent : r.arg = currentTarget.word]_vars

\* C15: the pronunciation score stored in the session's feedback is an
\* integer from 0 to 100.
C15_ScoreInRange ==
  childFeedback.score # NoScore => childFeedback.score \in 0..100

\* C16: a call of generateParagraph, checkTranslation, checkWordTranslation,
\* generatePracticeWord or evaluatePronunciation whose request fails, whose
\* response text is not JSON or whose JSON lacks a required field throws; it
\* never returns a value that lacks a required field.
FailedResponse(op, response) ==
  \/ response.kind # "object"
  \/ ~(RequiredFields(op) \subseteq response.fields)

C16_IncompleteResponseThrows ==
  gwCall.op \in JsonOps =>
    /\ FailedResponse(gwCall.op, gwCall.response) => gwOutcome.threw
    /\ ~gwOutcome.threw => RequiredFields(gwCall.op) \subseteq gwOutcome.fields

\* C17: when the API key is missing the application does not start: the
\* session stays Idle and no gateway operation is requested.
C17_NoSessionWithoutCredential ==
  ~hasCredential => Idle /\ Outstanding(ContentFetchOps \cup SubmissionOps) = 0

\* C18: generateSpeech fails with three messages that tell apart a response
\* without candidates, a first candidate without content parts, and parts of
\* which none carries inline audio data; otherwise it returns the inline data
\* of the first part that has some.
HasAudio(part) == part \notin {Undefined, ""}

SpeechCase(response) ==
  IF response.candidates \in {Undefined, "empty"} THEN "no candidates"
  ELSE IF response.content \in {Undefined, "noParts"} THEN "no content parts"
  ELSE IF \A i \in DOMAIN response.parts : ~HasAudio(response.parts[i])
       THEN "no inline audio data"
  ELSE "audio"

FirstAudio(parts) ==
  parts[CHOOSE i \in DOMAIN parts :
          /\ HasAudio(parts[i])
          /\ \A j \in 1..(i - 1) : ~HasAudio(parts[j])]

ResolvedSpeechCall ==
  /\ gwCall.op = "generateSpeech"
  /\ hasCredential
  /\ gwCall.response.kind = "resolved"

C18_SpeechFailuresDistinguished ==
  ResolvedSpeechCall =>
    IF SpeechCase(gwCall.response) = "audio"
    THEN /\ ~gwOutcome.threw
         /\ gwOutcome.data = FirstAudio(gwCall.response.parts)
    ELSE /\ gwOutcome.threw
         /\ \A other \in SpeechResponses :
              (/\ other.kind = "resolved"
               /\ SpeechCase(other) \notin {"audio", SpeechCase(gwCall.response)})
              => generateSpeech(TRUE, other).message # gwOutcome.message

\* C18 witness: a response whose two parts both carry audio was answered with
\* the data of the first one.
C18_Witness ==
  /\ ResolvedSpeechCall
  /\ gwCall.response.parts = <<"a1", "a2">>
  /\ gwOutcome.data = "a1"

\* C19: after the load at start and after a toggle whose write succeeds, the
\* stored value is the serialization of the dictionary in memory (when
\* nothing is stored at start, the dictionary is empty); a read that fails
\* leaves the dictionary empty and a write that fails leaves the toggled
\* dictionary in memory and the stored value as it was.
LoadStep == lastStorageOp = "none" /\ lastStorageOp' # "none"

ToggleStep == lastStorageOp # "none" /\ dictionary' # dictionary

PersistedIsDictionary ==
  storage'.kind = "json" /\ storage'.items = Serialize(dictionary')

FirstFetchBy(owner) ==
  /\ OutstandingLive(ContentFetchOps) = 1
  /\ \E r \in BagToSet(pending) :
       r.op \in ContentFetchOps /\ r.live /\ r.owner = owner

SubmissionSettled(op) ==
  \E r \in BagToSet(pending) :
    /\ r.op = op /\ r.live
    /\ pending' = pending (-) SetToBag({r})
    /\ lastEvent'.name = "completion"

OutcomeStored(fb, err) ==
  \/ fb # NoFeedback /\ err = Null
  \/ fb = NoFeedback /\ err # Null

C21_SubmitOutcome ==
  [][/\ SubmissionSettled("checkTranslation") /\ ShowsPractice =>
          /\ OutcomeStored(feedback', error')
          /\ ~isLoading'
          /\ UNCHANGED <<userTranslation, currentParagraph, progressCount>>
     /\ SubmissionSettled("checkWordTranslation") =>
          /\ OutcomeStored(childFeedback', childError')
          /\ ~isProcessing'
          /\ UNCHANGED <<userAnswer, currentTarget, progressCount>>]_vars

\* C22: when a content fetch that was given a previous item succeeds, the
\* paragraph or word it stores differs from that previous item.
FetchSucceeded(r) ==
  /\ r.op \in ContentFetchOps /\ r.live
  /\ r.arg \notin {"", Undefined, Null}
  /\ pending' = pending (-) SetToBag({r})
  /\ lastEvent'.name = "completion"
  /\ IF r.op = "generateParagraph"
     THEN error' # "Failed to generate a new paragraph. Please try again."
     ELSE childError' \notin {"Failed to generate a new word.", "Failed to generate content."}

C22_NewItemDiffers ==
  [][\A r \in BagToSet(pending) :
       FetchSucceeded(r) =>
         IF r.op = "generateParagraph"
         THEN currentParagraph' # r.arg
         ELSE currentTarget'.word # r.arg]_vars

\* C23: a content fetch or submission that was in flight when the session
\* was reset changes nothing when it resolves: the content, the feedback,
\* the error and the loading flag stay what they are, in the Idle state and
\* in a session selected since.
StaleSettled ==
  \E r \in BagToSet(pending) :
    /\ ~r.live
    /\ r.op \in ContentFetchOps \cup SubmissionOps
    /\ pending' = pending (-) SetToBag({r})
    /\ lastEvent'.name = "completion"

C23_StaleResultIgnored ==
  [][StaleSettled => UNCHANGED <<currentParagraph, feedback, error, isLoading>>]_vars

\* C24: at most one microphone stream is open, every open stream belongs to
\* a recorder that can still be stopped or is stopping, and recording and
\* audio loading are never active together.
C24_MicrophoneExclusive ==
  /\ openStreams <= 1
  /\ openStreams = StreamsToBeReleased
  /\ ~(isRecording /\ childAudioLoading)

\* C25: while a content fetch of the session is outstanding the session
\* shows no feedback.
C25_NoFeedbackDuringFetch ==
  /\ (ShowsPractice /\ OutstandingLive({"generateParagraph"}) > 0)
       => feedback = NoFeedback
  /\ ((ShowsVocabulary \/ ShowsSpeaking)
        /\ OutstandingOf({"generatePracticeWord"}, "Child") > 0)
       => childFeedback = NoFeedback

\* C26: the feedback on display was produced for the item on display.  A
\* result that a check or an evaluation stores was computed for the item shown
\* after the step, and a content fetch that replaces the item on display
\* leaves no feedback behind.
DisplayedFeedback ==
  IF mode = "reading" THEN feedback ELSE childFeedback

DisplayedItem ==
  IF mode = "reading" THEN currentParagraph ELSE currentTarget.word

ResultStoredFor(r) ==
  /\ r.op \in SubmissionOps
  /\ pending' = pending (-) SetToBag({r})
  /\ lastEvent'.name = "completion"
  /\ topic' # Null
  /\ DisplayedFeedback' # DisplayedFeedback

ItemReplaced ==
  /\ lastEvent'.name = "completion"
  /\ topic' # Null
  /\ DisplayedItem' # DisplayedItem

C26_FeedbackOfDisplayedItem ==
  [][/\ \A r \in BagToSet(pending) :
          ResultStoredFor(r) => r.arg = DisplayedItem'
     /\ ItemReplaced => DisplayedFeedback' = NoFeedback]_vars

\* C27: progressCount is never below 0 nor above SESSION_LENGTH + 1, and it
\* is 0 exactly when no topic is selected.
C27_ProgressInRange ==
  /\ progressCount \in 0..(SESSION_LENGTH + 1)
  /\ progressCount = 0 <=> Idle

\* The last Next of a session has been clicked: the count is at its maximum.
C27_Witness ==
  /\ topic # Null
  /\ progressCount = SESSION_LENGTH + 1
  /\ lastEvent.name = "next"

\* C28: with every request eventually answered, a loading flag that is raised
\* is eventually lowered: isLoading, the session component's isProcessing, and
\* the isAudioLoading of App and of the session component.
C28_FlagsCleared ==
  /\ isLoading ~> ~isLoading
  /\ isProcessing ~> ~isProcessing
  /\ isAudioLoading ~> ~isAudioLoading
  /\ childAudioLoading ~> ~childAudioLoading

\* A request has failed and its flag is lowered.
C28_Witness ==
  /\ lastEvent.name = "completion"
  /\ error = "Failed to play audio. Please try again."
  /\ ~isAudioLoading
  /\ ~isLoading

\* C29: a check or a listen request is sent only for a loaded item: the
\* content it carries is neither the empty paragraph nor the absent target.
ItemRequestsSent ==
  {r \in BagToSet(pending') :
     /\ r.op \in {"checkTranslation", "checkWordTranslation", "generateSpeech"}
     /\ r.live
     /\ CopiesIn(r, pending') > CopiesIn(r, pending)}

C29_RequestsCarryAnItem ==
  [][\A r \in ItemRequestsSent : r.arg \notin {"", Null, Undefined}]_vars

\* C30: the theme sent equals the session topic unless the topic came from
\* the Surprise Me button, and then it is a member of RANDOM_THEMES.
C30_ThemeIsTopic ==
  themeCall.theme # Null =>
    IF themeCall.origin = "surprise"
    THEN \E draw \in Draws : themeCall.theme = RANDOM_THEMES[draw]
    ELSE themeCall.theme = themeCall.topic

====
